---- MODULE Spec2Model ----
(***************************************************************************)
(* Model of the sofainfo command-line tool (libsofa/src/sofainfo.cpp) and  *)
(* of the FreeFieldDirectivityTF file class it drives                      *)
(* (src/SOFAFreeFieldDirectivityTF.h).                                     *)
(*                                                                         *)
(* Three specifications share the variables below:                         *)
(*   SpecIndex    the pure helpers array2DIndex / array3DIndex             *)
(*   Spec         one run of main()                                        *)
(*   SpecListener one call of PrintListener or PrintSource                 *)
(*                                                                         *)
(* The library behind sofa::File and sofa::FreeFieldDirectivityTF is not   *)
(* part of the two source files; its calls are modelled from the           *)
(* specification as nondeterministic outcomes (return value or exception). *)
(* SOFA_ASSERT is taken as fatal on failure, as the specification states.  *)
(***************************************************************************)
EXTENDS Integers, Sequences, FiniteSets, TLC

\* ------------------------------------------------------------------ bounds
\* largest size of one dimension of a variable
MaxDim == 2
\* largest rank the store may report for a position variable
MaxRank == 4
\* largest argc handed to main
MaxArgc == 3
\* largest dimension size of the shapes the index helpers are applied to
MaxIdxDim == 3

VARIABLES
    argv,       \* command line, argv[1] is the program name (C's argv[0])
    pc,         \* position of the running function
    term,       \* "running" | "returned" | "exited" | "aborted" | "crashed"
    exitCode,   \* process exit code, -1 while there is none
    out,        \* messages written to the output stream, in order
    filename,   \* the path handed to the file constructors, "" before
    handle,     \* state of the two file handles of main
    opens,      \* how many times each handle's constructor was entered
    exc,        \* exception in flight: "none" | "std" | "other"
    handler,    \* catch block entered: "none" | "std" | "other"
    calls,      \* library calls made so far, with their outcome
    sizes,      \* R, E, M, N as main holds them, all 0 before line 442
    pos,        \* what the last position printer did
    acc,        \* what the last numeric data accessor did
    oob,        \* TRUE once main indexed a vector past its length
    shape,      \* SpecIndex: dimension sizes
    index,      \* SpecIndex: multi-index
    flat        \* SpecIndex: flat index computed, -1 before

vars == <<argv, pc, term, exitCode, out, filename, handle, opens, exc,
          handler, calls, sizes, pos, acc, oob, shape, index, flat>>

mainVars == <<argv, term, exitCode, out, filename, handle, opens, exc,
              handler, calls, sizes, pos, acc, oob>>

\* ------------------------------------------------------- index helpers
\* a transposed stride, as in a column-major slip
array3DIndexStride(i, j, k, dim1, dim2, dim3) == dim1 * dim3 * i + dim3 * j + k

\* sofainfo.cpp:27-35
array3DIndex(i, j, k, dim1, dim2, dim3) == dim2 * dim3 * i + dim3 * j + k

\* the row stride taken from the wrong dimension
array2DIndexStride(i, j, dim1, dim2) == dim1 * i + j

\* sofainfo.cpp:44-50
array2DIndex(i, j, dim1, dim2) == dim2 * i + j

\* ---------------------------------------------------------------- idle
NoPos == [var |-> "", dims |-> <<>>, size |-> 0, getter |-> "none",
          args |-> <<>>, emitted |-> <<>>]

NoSizes == [R |-> 0, E |-> 0, M |-> 0, N |-> 0]

NoAcc == [name |-> "", ok |-> FALSE, len |-> 0, store |-> 0, read |-> <<>>]

Handles == {"theFile", "directivity"}

MainIdle ==
    /\ argv = <<"sofainfo">>
    /\ term = "running"
    /\ exitCode = -1
    /\ out = <<>>
    /\ filename = ""
    /\ handle = [h \in Handles |-> "Closed"]
    /\ opens = [h \in Handles |-> 0]
    /\ exc = "none"
    /\ handler = "none"
    /\ calls = <<>>
    /\ sizes = NoSizes
    /\ pos = NoPos
    /\ acc = NoAcc
    /\ oob = FALSE

IndexIdle ==
    /\ shape = <<>>
    /\ index = <<>>
    /\ flat = -1

\* ------------------------------------------------- SpecIndex: helpers
Shapes(r) == [1..r -> 1..MaxIdxDim]

ValidIndices(s) == {ix \in [1..Len(s) -> 0..(MaxIdxDim - 1)] :
                        \A a \in 1..Len(s) : ix[a] < s[a]}

InitIndex ==
    /\ MainIdle
    /\ pc = "index"
    /\ \E r \in {2, 3} : shape \in Shapes(r)
    /\ index \in ValidIndices(shape)
    /\ flat = -1

Flatten2D ==
    /\ pc = "index"
    /\ Len(shape) = 2
    /\ flat' = array2DIndex(index[1], index[2], shape[1], shape[2])
    /\ pc' = "indexed"
    /\ UNCHANGED <<shape, index>>
    /\ UNCHANGED mainVars

Flatten3D ==
    /\ pc = "index"
    /\ Len(shape) = 3
    /\ flat' = array3DIndex(index[1], index[2], index[3],
                            shape[1], shape[2], shape[3])
    /\ pc' = "indexed"
    /\ UNCHANGED <<shape, index>>
    /\ UNCHANGED mainVars

NextIndex == Flatten2D \/ Flatten3D

SpecIndex == InitIndex /\ [][NextIndex]_vars

\* ------------------------------------------------------------ main: inputs
\* argument strings tried on the command line
ArgStrings == {"h", "-h", "--h", "--help", "-help", "a.sofa", "-x"}

RECURSIVE ArgLists(_)
ArgLists(n) ==
    IF n = 0 THEN {<<>>}
    ELSE {Append(l, a) : l \in ArgLists(n - 1), a \in ArgStrings}

\* every command line of 1 .. MaxArgc words, the program name first
CommandLines ==
    {<<"sofainfo">> \o l : l \in UNION {ArgLists(n) : n \in 0..(MaxArgc - 1)}}

\* the two kinds of exception the handlers of main tell apart
ExcKinds == {"std", "other"}

\* outcome of a library call that returns a bool
BoolOutcomes == {"true", "false"} \cup ExcKinds

\* outcome of a library call whose result main does not look at
VoidOutcomes == {"ok"} \cup ExcKinds

\* ----------------------------------------------------- main: building blocks
Log(fn, arg, res) == [fn |-> fn, arg |-> arg, res |-> res]

\* sofainfo.cpp:14-18
DisplayHelp == <<"help">>

\* a help test that forgot one spelling
IsHelpArgShort(in) == in \in {"h", "-h", "--h", "--help"}

\* sofainfo.cpp:352
IsHelpArg(in) == in \in {"h", "-h", "--h", "--help", "-help"}

\* a handler that reports success
HandlerExitOk(kind) == 0

\* sofainfo.cpp:520, 525: exit(1) in either handler
HandlerExit(kind) == 1

\* a negative verdict reported as a failure
InvalidReturnOne(verdict) == 1

\* sofainfo.cpp:380, 426: return 0 after the "is not a valid" message
InvalidReturn(verdict) == 0

\* the branch taken whatever the verdict
ProceedsAlways(valid) == TRUE

\* sofainfo.cpp:373, 419: if( isSOFA == true ), if (isDirectivity == true)
Proceeds(valid) == valid = "true"

\* a destructor run on every local, constructed or not
DestroyAll(hs) == [h \in Handles |-> "Closed"]

\* end of the try scope (by return, by falling out of it, or by unwinding):
\* the handles that were constructed are destroyed, sofainfo.cpp:366-516
DestroyLocals(hs) ==
    [h \in Handles |-> IF hs[h] = "Open" THEN "Closed" ELSE hs[h]]

\* a library call inside the try block throws: control leaves the call with
\* the exception in flight, sofainfo.cpp:366
Throw(kind) ==
    /\ exc' = kind
    /\ pc' = "unwinding"

\* a return statement of main, sofainfo.cpp:355, 361, 380, 426, 528: the
\* value is fixed, the scopes are left next
ReturnFromMain(code) ==
    /\ exitCode' = code
    /\ pc' = "return"

\* ------------------------------------------------------------ main: Init
Init ==
    /\ argv \in CommandLines
    /\ pc = "parse"
    /\ term = "running"
    /\ exitCode = -1
    /\ out = <<>>
    /\ filename = ""
    /\ handle = [h \in Handles |-> "Closed"]
    /\ opens = [h \in Handles |-> 0]
    /\ exc = "none"
    /\ handler = "none"
    /\ calls = <<>>
    /\ sizes = NoSizes
    /\ pos = NoPos
    /\ acc = NoAcc
    /\ oob = FALSE
    /\ IndexIdle

\* ----------------------------------------------------------- main: steps
\* sofainfo.cpp:348-364
ParseArguments ==
    /\ pc = "parse"
    /\ UNCHANGED <<argv, term, handle, opens, exc, handler, calls, sizes, pos,
                   acc, oob, shape, index, flat>>
    /\ IF Len(argv) = 2
       THEN IF IsHelpArg(argv[2])
            THEN /\ out' = out \o DisplayHelp
                 /\ ReturnFromMain(0)
                 /\ UNCHANGED filename
            ELSE /\ filename' = argv[2]
                 /\ pc' = "file_ctor"
                 /\ UNCHANGED <<out, exitCode>>
       ELSE /\ out' = out \o DisplayHelp
            /\ ReturnFromMain(0)
            /\ UNCHANGED filename

\* sofainfo.cpp:369, the constructor of theFile is entered
FileCtorEnter ==
    /\ pc = "file_ctor"
    /\ handle' = [handle EXCEPT !["theFile"] = "Opening"]
    /\ opens' = [opens EXCEPT !["theFile"] = @ + 1]
    /\ pc' = "file_opening"
    /\ UNCHANGED <<argv, term, exitCode, out, filename, exc, handler, calls,
                   sizes, pos, acc, oob, shape, index, flat>>

\* sofainfo.cpp:369, the constructor of theFile returns or throws
FileCtorLeave ==
    /\ pc = "file_opening"
    /\ \E res \in VoidOutcomes :
        /\ calls' = Append(calls, Log("File", filename, res))
        /\ IF res = "ok"
           THEN /\ handle' = [handle EXCEPT !["theFile"] = "Open"]
                /\ pc' = "file_isvalid"
                /\ UNCHANGED exc
           ELSE /\ handle' = [handle EXCEPT !["theFile"] = "OpenFailed"]
                /\ Throw(res)
    /\ UNCHANGED <<argv, term, exitCode, out, filename, opens, handler,
                   sizes, pos, acc, oob, shape, index, flat>>

\* sofainfo.cpp:371-381
FileIsValid ==
    /\ pc = "file_isvalid"
    /\ \E res \in BoolOutcomes :
        /\ calls' = Append(calls, Log("File::IsValid", "", res))
        /\ IF res \in ExcKinds
           THEN /\ Throw(res)
                /\ UNCHANGED <<out, exitCode>>
           ELSE IF Proceeds(res)
                THEN /\ out' = Append(out, "is a valid SOFA file")
                     /\ pc' = "attributes"
                     /\ UNCHANGED <<exc, exitCode>>
                ELSE /\ out' = Append(out, "is not a valid SOFA file")
                     /\ ReturnFromMain(InvalidReturn(res))
                     /\ UNCHANGED exc
    /\ UNCHANGED <<argv, term, handle, filename, opens, handler, sizes, pos,
                   acc, oob, shape, index, flat>>

\* the calls of sofainfo.cpp:385-397, in order
AttributeCalls ==
    <<"PrintAllAttributes", "PrintSOFADimensions", "GetAttributeValueAsString">>

\* the log of a run of calls of which the first n return and, when n is not
\* all of them, the next one throws
RunCalls(fns, n, kind) ==
    [c \in 1..(IF n < Len(fns) THEN n + 1 ELSE n) |->
        Log(fns[c], "", IF c <= n THEN "ok" ELSE kind)]

\* sofainfo.cpp:383-397
PrintAttributes ==
    /\ pc = "attributes"
    /\ \E n \in 0..Len(AttributeCalls), kind \in ExcKinds :
        /\ calls' = calls \o RunCalls(AttributeCalls, n, kind)
        /\ IF n < Len(AttributeCalls)
           THEN /\ Throw(kind)
                /\ out' = out \o SubSeq(AttributeCalls, 1, IF n < 2 THEN n ELSE 2)
           ELSE /\ pc' = "dir_ctor"
                /\ out' = out \o SubSeq(AttributeCalls, 1, 2)
                /\ UNCHANGED exc
    /\ UNCHANGED <<argv, term, exitCode, filename, handle, opens, handler,
                   sizes, pos, acc, oob, shape, index, flat>>

\* sofainfo.cpp:405 with SOFAFreeFieldDirectivityTF.h:73-74,
\* the constructor of directivity is entered
DirectivityCtorEnter ==
    /\ pc = "dir_ctor"
    /\ handle' = [handle EXCEPT !["directivity"] = "Opening"]
    /\ opens' = [opens EXCEPT !["directivity"] = @ + 1]
    /\ pc' = "dir_opening"
    /\ UNCHANGED <<argv, term, exitCode, out, filename, exc, handler, calls,
                   sizes, pos, acc, oob, shape, index, flat>>

\* sofainfo.cpp:405, the constructor of directivity returns or throws
DirectivityCtorLeave ==
    /\ pc = "dir_opening"
    /\ \E res \in VoidOutcomes :
        /\ calls' = Append(calls, Log("FreeFieldDirectivityTF", filename, res))
        /\ IF res = "ok"
           THEN /\ handle' = [handle EXCEPT !["directivity"] = "Open"]
                /\ pc' = "dir_isvalid"
                /\ UNCHANGED exc
           ELSE /\ handle' = [handle EXCEPT !["directivity"] = "OpenFailed"]
                /\ Throw(res)
    /\ UNCHANGED <<argv, term, exitCode, out, filename, opens, handler,
                   sizes, pos, acc, oob, shape, index, flat>>

\* sofainfo.cpp:407-427 with SOFAFreeFieldDirectivityTF.h:78
DirectivityIsValid ==
    /\ pc = "dir_isvalid"
    /\ \E res \in BoolOutcomes :
        /\ calls' = Append(calls, Log("FreeFieldDirectivityTF::IsValid", "", res))
        /\ IF res \in ExcKinds
           THEN /\ Throw(res)
                /\ UNCHANGED <<out, exitCode>>
           ELSE IF Proceeds(res)
                THEN /\ out' = Append(out, "is a valid 'FreeFieldDirectivityTF' file")
                     /\ pc' = "dimensions"
                     /\ UNCHANGED <<exc, exitCode>>
                ELSE /\ out' = Append(out, "is not a valid 'FreeFieldDirectivityTF' file")
                     /\ ReturnFromMain(InvalidReturn(res))
                     /\ UNCHANGED exc
    /\ UNCHANGED <<argv, term, handle, filename, opens, handler, sizes, pos,
                   acc, oob, shape, index, flat>>

\* stack unwinding out of the try block, sofainfo.cpp:366-516: the locals
\* that were constructed are destroyed before a handler runs
Unwind ==
    /\ pc = "unwinding"
    /\ handle' = DestroyLocals(handle)
    /\ pc' = "catch"
    /\ UNCHANGED <<argv, term, exitCode, out, filename, opens, exc, handler,
                   calls, sizes, pos, acc, oob, shape, index, flat>>

\* sofainfo.cpp:517-521
CatchStdException ==
    /\ pc = "catch"
    /\ exc = "std"
    /\ handler' = "std"
    /\ out' = Append(out, "exception occured")
    /\ term' = "exited"
    /\ exitCode' = HandlerExit(exc)
    /\ pc' = "done"
    /\ UNCHANGED <<argv, filename, handle, opens, exc, calls, sizes, pos,
                   acc, oob, shape, index, flat>>

\* sofainfo.cpp:522-526
CatchAny ==
    /\ pc = "catch"
    /\ exc = "other"
    /\ handler' = "other"
    /\ out' = Append(out, "unknown exception occured")
    /\ term' = "exited"
    /\ exitCode' = HandlerExit(exc)
    /\ pc' = "done"
    /\ UNCHANGED <<argv, filename, handle, opens, exc, calls, sizes, pos,
                   acc, oob, shape, index, flat>>

\* the calls of sofainfo.cpp:442-445, in order
DimensionCalls ==
    <<"GetNumReceivers", "GetNumEmitters", "GetNumMeasurements",
      "GetNumDataSamples">>

\* sofainfo.cpp:442-445 (the sizes of the model stay far below the range of
\* unsigned int, so the casts change nothing)
DimensionQueries ==
    /\ pc = "dimensions"
    /\ \E n \in 0..Len(DimensionCalls), kind \in ExcKinds :
        /\ calls' = calls \o RunCalls(DimensionCalls, n, kind)
        /\ IF n < Len(DimensionCalls)
           THEN /\ Throw(kind)
                /\ UNCHANGED sizes
           ELSE /\ \E r \in 0..MaxDim, e \in 0..MaxDim,
                      m \in 0..MaxDim, nn \in 0..MaxDim :
                      sizes' = [R |-> r, E |-> e, M |-> m, N |-> nn]
                /\ pc' = "receiver"
                /\ UNCHANGED exc
    /\ UNCHANGED <<argv, term, exitCode, out, filename, handle, opens,
                   handler, pos, acc, oob, shape, index, flat>>

\* ----------------------------------------------------- position printers
\* the shapes the store may report for a variable
DimSeqs == UNION {[1..r -> 0..MaxDim] : r \in 1..MaxRank}

\* SOFA_ASSERT on a false expression ends the process
SofaAssertFails ==
    /\ term' = "aborted"
    /\ pc' = "done"

\* the inner loop of sofainfo.cpp:84-88 (146-150, 209-213, ...), from j on
RECURSIVE Loop2DInner(_, _, _, _)
Loop2DInner(i, j, d0, d1) ==
    IF j < d1
    THEN <<array2DIndex(i, j, d0, d1)>> \o Loop2DInner(i, j + 1, d0, d1)
    ELSE <<>>

\* the loop nest of sofainfo.cpp:82-89 (144-151, 207-214, ...), from i on:
\* the flat indices at which pos is read
RECURSIVE Loop2D(_, _, _)
Loop2D(i, d0, d1) ==
    IF i < d0
    THEN Loop2DInner(i, 0, d0, d1) \o Loop2D(i + 1, d0, d1)
    ELSE <<>>

\* the innermost loop with an inclusive bound, k <= dims[2]
RECURSIVE Loop3DInnerInclusive(_, _, _, _, _, _)
Loop3DInnerInclusive(i, j, k, d0, d1, d2) ==
    IF k <= d2
    THEN <<array3DIndex(i, j, k, d0, d1, d2)>>
             \o Loop3DInnerInclusive(i, j, k + 1, d0, d1, d2)
    ELSE <<>>

\* the innermost loop of sofainfo.cpp:103-107 (164-168, 490-494, 507-511)
RECURSIVE Loop3DInner(_, _, _, _, _, _)
Loop3DInner(i, j, k, d0, d1, d2) ==
    IF k < d2
    THEN <<array3DIndex(i, j, k, d0, d1, d2)>>
             \o Loop3DInner(i, j, k + 1, d0, d1, d2)
    ELSE <<>>

\* the middle loop of sofainfo.cpp:101-108 (162-169, 488-495, 505-512)
RECURSIVE Loop3DMiddle(_, _, _, _, _)
Loop3DMiddle(i, j, d0, d1, d2) ==
    IF j < d1
    THEN Loop3DInner(i, j, 0, d0, d1, d2) \o Loop3DMiddle(i, j + 1, d0, d1, d2)
    ELSE <<>>

\* the loop nest of sofainfo.cpp:99-109 (160-170, 486-496, 503-513)
RECURSIVE Loop3D(_, _, _, _)
Loop3D(i, d0, d1, d2) ==
    IF i < d0
    THEN Loop3DMiddle(i, 0, d0, d1, d2) \o Loop3D(i + 1, d0, d1, d2)
    ELSE <<>>

\* a buffer sized by the sum of the sizes
PosSize2DSum(dims) == dims[1] + dims[2]

\* sofainfo.cpp:77, 139, 201, 237, 273, 316: pos.resize( dims[0] * dims[1] )
PosSize2D(dims) == dims[1] * dims[2]

\* sofainfo.cpp:93, 155: pos.resize(dims[0] * dims[1] * dims[2])
PosSize3D(dims) == dims[1] * dims[2] * dims[3]

\* sofainfo.cpp:73, 135: SOFA_ASSERT( (dims.size() == 3) || (dims.size() == 2) )
RankIs2Or3(dims) == (Len(dims) = 3) \/ (Len(dims) = 2)

\* the assertion of the rank-2-or-3 printers pasted into a rank-2 printer
RankIs2Loose(dims) == (Len(dims) = 3) \/ (Len(dims) = 2)

\* sofainfo.cpp:198, 234, 270, 313: SOFA_ASSERT( dims.size() == 2 )
RankIs2(dims) == Len(dims) = 2

\* sofainfo.cpp:76-91, 138-153, 200-214: the rank 2 reader up to the getter
\* (with a size of 0 the address &pos[0] is formed but nothing is read)
Read2D(var, dims) ==
    [var |-> var, dims |-> dims, size |-> PosSize2D(dims), getter |-> "2D",
     args |-> <<dims[1], dims[2]>>, emitted |-> <<>>]

\* sofainfo.cpp:92-110, 154-171: the rank 3 reader up to the getter
Read3D(var, dims) ==
    [var |-> var, dims |-> dims, size |-> PosSize3D(dims), getter |-> "3D",
     args |-> <<dims[1], dims[2], dims[3]>>, emitted |-> <<>>]

\* the body shared by the position printers, sofainfo.cpp:61-111, 123-173,
\* 186-215, 222-251, 258-287, 301-330.  fn is the getter's name, var the
\* variable's; has3D tells the printers with a rank 3 branch from those
\* that assert rank 2; next is where control goes when the block is done.
\* The bool the getter of the values returns is dropped by the code.
PrintPosition(fn, var, has3D, next) ==
    \E units \in BoolOutcomes :
        IF units \in ExcKinds
        THEN /\ calls' = Append(calls, Log(fn, "units", units))
             /\ Throw(units)
             /\ UNCHANGED <<pos, out, term>>
        ELSE IF units = "false"
        THEN /\ calls' = Append(calls, Log(fn, "units", units))
             /\ SofaAssertFails
             /\ UNCHANGED <<pos, out, exc>>
        ELSE \E dres \in VoidOutcomes :
            IF dres \in ExcKinds
            THEN /\ calls' = calls \o <<Log(fn, "units", units),
                                        Log("GetVariableDimensions", var, dres)>>
                 /\ Throw(dres)
                 /\ out' = Append(out, "Type and Units")
                 /\ UNCHANGED <<pos, term>>
            ELSE \E dims \in DimSeqs :
            IF ~(IF has3D THEN RankIs2Or3(dims) ELSE RankIs2(dims))
            THEN /\ calls' = calls \o <<Log(fn, "units", units),
                                        Log("GetVariableDimensions", var, dres)>>
                 /\ SofaAssertFails
                 /\ out' = Append(out, "Type and Units")
                 /\ pos' = [NoPos EXCEPT !.var = var, !.dims = dims]
                 /\ UNCHANGED exc
            ELSE \E gres \in VoidOutcomes :
                LET two == (~has3D) \/ Len(dims) = 2
                    rd  == IF two THEN Read2D(var, dims) ELSE Read3D(var, dims)
                    idx == IF two THEN Loop2D(0, dims[1], dims[2])
                           ELSE Loop3D(0, dims[1], dims[2], dims[3])
                IN  /\ calls' = calls \o <<Log(fn, "units", units),
                                           Log("GetVariableDimensions", var, dres),
                                           Log(fn, "values", gres)>>
                    /\ IF gres \in ExcKinds
                       THEN /\ Throw(gres)
                            /\ out' = Append(out, "Type and Units")
                            /\ pos' = rd
                            /\ UNCHANGED term
                       ELSE /\ pos' = [rd EXCEPT !.emitted = idx]
                            /\ out' = out \o <<"Type and Units", var>>
                            /\ pc' = next
                            /\ UNCHANGED <<exc, term>>

\* where control goes when a position printer (a block of PrintListener)
\* is left
AfterPrinter ==
    [receiver_end |-> "emitter", emitter_end |-> "frequency",
     listener_position_end |-> "listener_view",
     listener_view_end |-> "listener_up",
     listener_up_end |-> "returned", source_position_end |-> "returned"]

\* the printer returns (the block closes), sofainfo.cpp:112, 174, 216, 252,
\* 288, 331: its locals dims and pos are gone
LeavePrinter ==
    /\ pc \in DOMAIN AfterPrinter
    /\ pc' = AfterPrinter[pc]
    /\ pos' = NoPos
    /\ UNCHANGED <<argv, term, exitCode, out, filename, handle, opens, exc,
                   handler, calls, sizes, acc, oob, shape, index, flat>>

\* sofainfo.cpp:120-174, called at 453-457
PrintReceiver ==
    /\ pc = "receiver"
    /\ PrintPosition("GetReceiverPosition", "ReceiverPosition", TRUE,
                     "receiver_end")
    /\ UNCHANGED <<argv, exitCode, filename, handle, opens, handler, sizes,
                   acc, oob, shape, index, flat>>

\* sofainfo.cpp:58-112, called at 458-462
PrintEmitter ==
    /\ pc = "emitter"
    /\ PrintPosition("GetEmitterPosition", "EmitterPosition", TRUE,
                     "emitter_end")
    /\ UNCHANGED <<argv, exitCode, filename, handle, opens, handler, sizes,
                   acc, oob, shape, index, flat>>

\* --------------------------------------------------- numeric data accessors
\* element counts the store may report for a numeric variable
StoreSizes == 0..(MaxDim * MaxDim * MaxDim)

\* an accessor that hands back whatever the store holds
AccessorReturnStore(store, expected) == [res |-> "true", len |-> store]

\* SOFAFreeFieldDirectivityTF.h:80-82, the value of GetFrequencyValues /
\* GetDataReal / GetDataImag when it returns: the buffer of the resolved
\* size, or a failure that leaves no elements
AccessorReturn(store, expected) ==
    IF store = expected
    THEN [res |-> "true", len |-> expected]
    ELSE [res |-> "false", len |-> 0]

\* the loop of sofainfo.cpp:470-473, from i on
RECURSIVE Loop1D(_, _)
Loop1D(i, n) == IF i < n THEN <<i>> \o Loop1D(i + 1, n) ELSE <<>>

\* some index of the sequence lies past a vector of len elements
ReadsPast(read, len) == \E x \in 1..Len(read) : read[x] >= len

\* the body shared by sofainfo.cpp:463-475, 480-496 and 498-513: the
\* accessor fills a fresh vector, its return value is dropped, and the loop
\* reads the vector at the indices of read
NumericAccess(name, expected, read, next) ==
    \E store \in StoreSizes, thrown \in {"none"} \cup ExcKinds :
        IF thrown \in ExcKinds
        THEN /\ calls' = Append(calls, Log(name, "", thrown))
             /\ Throw(thrown)
             /\ acc' = [NoAcc EXCEPT !.name = name]
             /\ UNCHANGED <<oob, term, out>>
        ELSE LET ret == AccessorReturn(store, expected)
                 rec(rd) == [name |-> name, ok |-> (ret.res = "true"),
                             len |-> ret.len, store |-> store, read |-> rd]
             IN /\ calls' = Append(calls, Log(name, "", ret.res))
                /\ out' = Append(out, name)
                /\ UNCHANGED exc
                /\ IF ReadsPast(read, ret.len)
                   THEN \* operator[] past the end: a read there may fault,
                        \* which ends the loop at it, or yield whatever
                        \* lies there
                        /\ oob' = TRUE
                        /\ \/ \E p \in 1..Len(read) :
                                 /\ read[p] >= ret.len
                                 /\ acc' = rec(SubSeq(read, 1, p))
                                 /\ term' = "crashed"
                                 /\ pc' = "done"
                           \/ /\ acc' = rec(read)
                              /\ term' = term
                              /\ pc' = next
                   ELSE /\ acc' = rec(read)
                        /\ pc' = next
                        /\ UNCHANGED <<oob, term>>

\* sofainfo.cpp:463-475
PrintFrequencies ==
    /\ pc = "frequency"
    /\ NumericAccess("GetFrequencyValues", sizes.N, Loop1D(0, sizes.N),
                     "data_real")
    /\ UNCHANGED <<argv, exitCode, filename, handle, opens, handler, sizes,
                   pos, shape, index, flat>>

\* sofainfo.cpp:480-496
PrintDataReal ==
    /\ pc = "data_real"
    /\ NumericAccess("GetDataReal", sizes.M * sizes.R * sizes.N,
                     Loop3D(0, sizes.M, sizes.R, sizes.N), "data_imag")
    /\ UNCHANGED <<argv, exitCode, filename, handle, opens, handler, sizes,
                   pos, shape, index, flat>>

\* sofainfo.cpp:498-513
PrintDataImag ==
    /\ pc = "data_imag"
    /\ NumericAccess("GetDataImag", sizes.M * sizes.R * sizes.N,
                     Loop3D(0, sizes.M, sizes.R, sizes.N), "end")
    /\ UNCHANGED <<argv, exitCode, filename, handle, opens, handler, sizes,
                   pos, shape, index, flat>>

\* sofainfo.cpp:528: return 0 when the try block ran to its end
EndOfMain ==
    /\ pc = "end"
    /\ ReturnFromMain(0)
    /\ UNCHANGED <<argv, term, out, filename, handle, opens, exc, handler,
                   calls, sizes, pos, acc, oob, shape, index, flat>>

\* the scopes of main are left on a return, sofainfo.cpp:516 and 529: the
\* handles that were constructed are destroyed and the process ends with
\* the returned value
LeaveMain ==
    /\ pc = "return"
    /\ handle' = DestroyLocals(handle)
    /\ term' = "returned"
    /\ pc' = "done"
    /\ UNCHANGED <<argv, exitCode, out, filename, opens, exc, handler, calls,
                   sizes, pos, acc, oob, shape, index, flat>>

Next ==
    \/ ParseArguments
    \/ FileCtorEnter
    \/ FileCtorLeave
    \/ FileIsValid
    \/ PrintAttributes
    \/ DirectivityCtorEnter
    \/ DirectivityCtorLeave
    \/ DirectivityIsValid
    \/ DimensionQueries
    \/ PrintReceiver
    \/ PrintEmitter
    \/ LeavePrinter
    \/ PrintFrequencies
    \/ PrintDataReal
    \/ PrintDataImag
    \/ EndOfMain
    \/ LeaveMain
    \/ Unwind
    \/ CatchStdException
    \/ CatchAny

Spec == Init /\ [][Next]_vars

\* ------------------------------------- SpecListener: PrintListener, PrintSource
\* the caller holds an open file and calls one of the two printers
InitListener ==
    /\ argv = <<"sofainfo", "a.sofa">>
    /\ pc \in {"listener_position", "source_position"}
    /\ term = "running"
    /\ exitCode = -1
    /\ out = <<>>
    /\ filename = "a.sofa"
    /\ handle = [h \in Handles |-> IF h = "theFile" THEN "Open" ELSE "Closed"]
    /\ opens = [h \in Handles |-> IF h = "theFile" THEN 1 ELSE 0]
    /\ exc = "none"
    /\ handler = "none"
    /\ calls = <<>>
    /\ sizes = NoSizes
    /\ pos = NoPos
    /\ acc = NoAcc
    /\ oob = FALSE
    /\ IndexIdle

ListenerUnchanged ==
    UNCHANGED <<argv, exitCode, filename, handle, opens, handler, sizes,
                acc, oob, shape, index, flat>>

\* sofainfo.cpp:185-216
PrintListenerPosition ==
    /\ pc = "listener_position"
    /\ PrintPosition("GetListenerPosition", "ListenerPosition", FALSE,
                     "listener_position_end")
    /\ ListenerUnchanged

\* sofainfo.cpp:221-252
PrintListenerView ==
    /\ pc = "listener_view"
    /\ PrintPosition("GetListenerView", "ListenerView", FALSE,
                     "listener_view_end")
    /\ ListenerUnchanged

\* sofainfo.cpp:257-288
PrintListenerUp ==
    /\ pc = "listener_up"
    /\ PrintPosition("GetListenerUp", "ListenerUp", FALSE, "listener_up_end")
    /\ ListenerUnchanged

\* sofainfo.cpp:297-331
PrintSource ==
    /\ pc = "source_position"
    /\ PrintPosition("GetSourcePosition", "SourcePosition", FALSE,
                     "source_position_end")
    /\ ListenerUnchanged

NextListener ==
    \/ PrintListenerPosition
    \/ PrintListenerView
    \/ PrintListenerUp
    \/ PrintSource
    \/ LeavePrinter

SpecListener == InitListener /\ [][NextListener]_vars


\* ------------------------------------------------------- claims C1, C2
RECURSIVE Product(_)
Product(s) == IF s = <<>> THEN 1 ELSE Head(s) * Product(Tail(s))

\* sum over k of ix[k] times the product of the sizes after k
RECURSIVE RowMajor(_, _)
RowMajor(ix, s) ==
    IF ix = <<>> THEN 0
    ELSE Head(ix) * Product(Tail(s)) + RowMajor(Tail(ix), Tail(s))

FlatOf(ix, s) ==
    IF Len(s) = 2 THEN array2DIndex(ix[1], ix[2], s[1], s[2])
    ELSE array3DIndex(ix[1], ix[2], ix[3], s[1], s[2], s[3])

\* recover the multi-index by division and remainder with the trailing sizes
Unflatten(f, s) ==
    IF Len(s) = 2 THEN <<f \div s[2], f % s[2]>>
    ELSE <<f \div (s[2] * s[3]), (f \div s[3]) % s[2], f % s[3]>>

\* C1: the flat index computed by array2DIndex / array3DIndex for a valid
\* multi-index is the row-major index i*d1*d2 + j*d2 + k (i*d1 + j), equals
\* the sum of ik times the product of the later sizes, and is below the
\* product of the sizes.
C1_RowMajor ==
    pc = "indexed" =>
        /\ flat = RowMajor(index, shape)
        /\ Len(shape) = 3 =>
             flat = index[1] * shape[2] * shape[3] + index[2] * shape[3] + index[3]
        /\ Len(shape) = 2 => flat = index[1] * shape[2] + index[2]
        /\ flat >= 0
        /\ flat < Product(shape)

C1_Witness ==
    /\ pc = "indexed"
    /\ Len(shape) = 3
    /\ index = <<1, 1, 1>>
    /\ shape[1] # shape[2]
    /\ shape[2] # shape[3]

\* C2: unflattening the computed flat index gives back the multi-index, and
\* no other valid multi-index of the same shape has the same flat index.
C2_RoundTrip ==
    pc = "indexed" =>
        /\ Unflatten(flat, shape) = index
        /\ \A other \in ValidIndices(shape) :
               FlatOf(other, shape) = flat => other = index

C2_Witness ==
    /\ pc = "indexed"
    /\ Len(shape) = 2
    /\ shape[1] < shape[2]
    /\ index[1] > 0
    /\ flat > 0

\* ------------------------------------------------------ claims C3 .. C10
\* some library call of the run ended in an exception
SomeCallThrew == \E c \in 1..Len(calls) : calls[c].res \in ExcKinds

LastCall == calls[Len(calls)]

\* C3: a run in which the construction of a file handle, IsValid or an
\* accessor raised an exception (of either kind) ends with exit code 1, a
\* run that ends with exit code 1 had such an exception and went through a
\* handler, and a run that returns from main (success, help, negative
\* verdict) ends with exit code 0.
C3_ExitCodes ==
    /\ (pc = "done" /\ SomeCallThrew) =>
           (term = "exited" /\ exitCode = 1 /\ handler = exc /\ exc # "none")
    /\ (term = "exited" \/ exitCode = 1) =>
           (SomeCallThrew /\ LastCall.res \in ExcKinds /\ exitCode = 1)
    /\ term = "returned" => (exitCode = 0 /\ ~SomeCallThrew)
    /\ (pc = "done" /\ "help" \in {out[o] : o \in 1..Len(out)}) =>
           (term = "returned" /\ exitCode = 0)

C3_Witness ==
    /\ term = "exited"
    /\ exitCode = 1
    /\ handler = "other"
    /\ LastCall.fn = "GetDataImag"

IsValidCalls == {"File::IsValid", "FreeFieldDirectivityTF::IsValid"}

NotValidMessage(fn) ==
    IF fn = "File::IsValid" THEN "is not a valid SOFA file"
    ELSE "is not a valid 'FreeFieldDirectivityTF' file"

\* C4: when theFile.IsValid() or FreeFieldDirectivityTF::IsValid() returns
\* false, the matching "is not a valid" message is the last thing printed,
\* no further library call is made, no exception is in flight, no handler
\* is entered, exit(1) is not reached and the process returns 0 instead of
\* being aborted.
C4_CleanNegative ==
    \A c \in 1..Len(calls) :
        (calls[c].fn \in IsValidCalls /\ calls[c].res = "false") =>
            /\ c = Len(calls)
            /\ out[Len(out)] = NotValidMessage(calls[c].fn)
            /\ exc = "none"
            /\ handler = "none"
            /\ exitCode = 0
            /\ pc \in {"return", "done"}
            /\ term \in {"running", "returned"}
            /\ pc = "done" => term = "returned"

C4_Witness ==
    /\ Len(calls) > 0
    /\ LastCall = Log("FreeFieldDirectivityTF::IsValid", "", "false")
    /\ term = "returned"
    /\ exitCode = 0

HelpShown == "help" \in {out[o] : o \in 1..Len(out)}

CtorCalls == {"File", "FreeFieldDirectivityTF"}

\* what "the single argument is used, unchanged, as the path" means: main
\* holds it as filename and every constructor call gets it
OpensArgument ==
    /\ filename = argv[2]
    /\ ~HelpShown
    /\ \A c \in 1..Len(calls) :
           calls[c].fn \in CtorCalls => calls[c].arg = argv[2]

\* help is displayed, main returns 0, no file handle is constructed
OnlyHelp ==
    /\ HelpShown
    /\ pc \in {"return", "done"}
    /\ exitCode = 0
    /\ calls = <<>>
    /\ \A h \in Handles : opens[h] = 0 /\ handle[h] = "Closed"

\* C5 as stated: with an argument count other than one, or the single
\* argument -h or --help, main only displays the help and returns 0; in
\* every other case the single argument is opened as the file.
C5_AsStated ==
    pc # "parse" =>
        IF Len(argv) # 2 \/ argv[2] \in {"-h", "--help"}
        THEN OnlyHelp
        ELSE OpensArgument

\* C5 amended: the help spellings are h, -h, --h, --help and -help; with an
\* argument count other than one, or the single argument one of these five,
\* main only displays the help and returns 0; in every other case the
\* single argument is opened, unchanged, as the file.
C5_HelpSpellings ==
    pc # "parse" =>
        IF Len(argv) # 2 \/ argv[2] \in {"h", "-h", "--h", "--help", "-help"}
        THEN OnlyHelp
        ELSE OpensArgument

C5_Witness ==
    /\ argv = <<"sofainfo", "-help">>
    /\ pc = "done"
    /\ HelpShown
    /\ exitCode = 0

\* C6: PrintReceiver / PrintEmitter on a rank 2 variable allocate exactly
\* dims[0]*dims[1] elements and call the 2D getter with (dims[0], dims[1]);
\* on a rank 3 variable they allocate exactly dims[0]*dims[1]*dims[2] and
\* call the 3D getter with the three sizes; on any other rank no getter is
\* called, nothing is allocated and no element is read.
C6_RankDetected ==
    pos.var \in {"ReceiverPosition", "EmitterPosition"} =>
        /\ Len(pos.dims) = 2 =>
               /\ pos.getter = "2D"
               /\ pos.size = pos.dims[1] * pos.dims[2]
               /\ pos.args = <<pos.dims[1], pos.dims[2]>>
        /\ Len(pos.dims) = 3 =>
               /\ pos.getter = "3D"
               /\ pos.size = pos.dims[1] * pos.dims[2] * pos.dims[3]
               /\ pos.args = <<pos.dims[1], pos.dims[2], pos.dims[3]>>
        /\ Len(pos.dims) \notin {2, 3} =>
               /\ pos.getter = "none"
               /\ pos.size = 0
               /\ pos.emitted = <<>>
               /\ term = "aborted"
        /\ \A e \in 1..Len(pos.emitted) : pos.emitted[e] < pos.size

C6_Witness ==
    /\ pos.var = "EmitterPosition"
    /\ Len(pos.dims) = 2
    /\ pos.dims[1] > 1
    /\ pos.dims[2] > 1
    /\ pos.getter = "2D"
    /\ Len(pos.emitted) = pos.size

ListenerVariables ==
    {"ListenerPosition", "ListenerView", "ListenerUp", "SourcePosition"}

ExpectedLength(name) ==
    IF name = "GetFrequencyValues" THEN sizes.N
    ELSE sizes.M * sizes.R * sizes.N

DataAccessors == {"GetFrequencyValues", "GetDataReal", "GetDataImag"}

\* C8: when GetFrequencyValues returns true the vector holds exactly N
\* elements, when GetDataReal / GetDataImag returns true it holds exactly
\* M*R*N; when the store's size differs from that product the accessor
\* fails, and then the vector holds nothing: never a shorter or a longer
\* buffer.
C8_ExactLength ==
    (acc.name \in DataAccessors /\ LastCall.fn = acc.name
        /\ LastCall.res \notin ExcKinds) =>
        /\ acc.ok <=> (acc.store = ExpectedLength(acc.name))
        /\ acc.ok => acc.len = ExpectedLength(acc.name)
        /\ ~acc.ok => acc.len = 0
        /\ acc.ok <=> (LastCall.res = "true")

C8_Witness ==
    /\ acc.name = "GetDataReal"
    /\ acc.ok
    /\ acc.len = sizes.M * sizes.R * sizes.N
    /\ acc.len > MaxDim
    /\ Len(acc.read) = acc.len

\* the handle a library call is made on
Owner(fn) ==
    IF fn \in {"FreeFieldDirectivityTF", "FreeFieldDirectivityTF::IsValid",
               "GetNumReceivers", "GetNumEmitters", "GetNumMeasurements",
               "GetNumDataSamples", "GetFrequencyValues", "GetDataReal",
               "GetDataImag"}
    THEN "directivity" ELSE "theFile"

HandleMoves ==
    {<<"Closed", "Opening">>, <<"Opening", "Open">>,
     <<"Opening", "OpenFailed">>, <<"Open", "Closed">>}

\* C9: a handle only moves Closed -> Opening -> Open or OpenFailed and
\* Open -> Closed; it enters Opening at most once (never reopened), reaches
\* Open only when its constructor returned, OpenFailed only when it threw,
\* Closed only when main's scope is left (return or unwinding); IsValid and
\* every accessor is called on an Open handle and leaves both handles as
\* they were.
C9_Lifecycle ==
    [][ /\ \A h \in Handles :
            handle'[h] # handle[h] =>
                /\ <<handle[h], handle'[h]>> \in HandleMoves
                /\ handle'[h] = "Opening" => (opens[h] = 0 /\ opens'[h] = 1)
                /\ handle'[h] = "Open" =>
                       (calls' = Append(calls, calls'[Len(calls')])
                        /\ calls'[Len(calls')].fn \in CtorCalls
                        /\ Owner(calls'[Len(calls')].fn) = h
                        /\ calls'[Len(calls')].res = "ok")
                /\ handle'[h] = "OpenFailed" =>
                       (calls'[Len(calls')].fn \in CtorCalls
                        /\ Owner(calls'[Len(calls')].fn) = h
                        /\ calls'[Len(calls')].res \in ExcKinds)
                /\ handle'[h] = "Closed" =>
                       (pc \in {"return", "unwinding"} /\ pc' \in {"done", "catch"})
        /\ \A c \in (Len(calls) + 1)..Len(calls') :
            calls'[c].fn \notin CtorCalls =>
                /\ handle[Owner(calls'[c].fn)] = "Open"
                /\ handle' = handle
      ]_vars

C9_Witness ==
    /\ pc = "done"
    /\ handle["theFile"] = "Closed"
    /\ handle["directivity"] = "OpenFailed"
    /\ opens["theFile"] = 1
    /\ opens["directivity"] = 1

TypedAccessors ==
    {"GetNumReceivers", "GetNumEmitters", "GetNumMeasurements",
     "GetNumDataSamples", "GetReceiverPosition", "GetEmitterPosition",
     "GetVariableDimensions", "GetFrequencyValues", "GetDataReal",
     "GetDataImag"}

\* the places of the call log that hold the entry e
PlacesOf(e) == {c \in 1..Len(calls) : calls[c] = e}

\* C10: every dimension query, position read and data read of a run comes
\* after the file was opened, theFile.IsValid() returned true and
\* FreeFieldDirectivityTF::IsValid() returned true, in that order; after a
\* validation that returned false no accessor is called.
C10_ValidationFirst ==
    /\ \A c \in 1..Len(calls) :
        calls[c].fn \in TypedAccessors =>
            \E a \in PlacesOf(Log("File", filename, "ok")),
               b \in PlacesOf(Log("File::IsValid", "", "true")),
               d \in PlacesOf(Log("FreeFieldDirectivityTF::IsValid", "", "true")) :
                a < b /\ b < d /\ d < c
    /\ \A v \in 1..Len(calls) :
        (calls[v].fn \in IsValidCalls /\ calls[v].res # "true") =>
            \A c \in (v + 1)..Len(calls) : calls[c].fn \notin TypedAccessors

C10_Witness ==
    /\ Len(calls) > 0
    /\ LastCall = Log("GetDataImag", "", "true")
    /\ \E c \in 1..Len(calls) : calls[c].fn = "GetEmitterPosition"
    /\ pc = "done"

\* the sequence 0, 1, ..., n-1
Iota(n) == [x \in 1..n |-> x - 1]

PositionPrinted ==
    /\ pos.var \in {"ReceiverPosition", "EmitterPosition"}
    /\ pc \in {"receiver_end", "emitter_end"}

DataPrinted ==
    /\ acc.name \in {"GetDataReal", "GetDataImag"}
    /\ LastCall.fn = acc.name
    /\ LastCall.res \notin ExcKinds

\* C11: the loop nests of PrintReceiver / PrintEmitter read pos at the flat
\* indices 0, 1, ..., P-1 in this order, P the product of the sizes of the
\* variable, each once and as many as the buffer holds; the loop nests of
\* the Data.Real / Data.Imag printing read the vector at 0, 1, ..., M*R*N-1
\* in this order (at a first part of it when a read faults); with a size of
\* 0 nothing is read.
C11_IterationOrder ==
    /\ PositionPrinted =>
           /\ pos.emitted = Iota(Product(pos.dims))
           /\ Len(pos.emitted) = pos.size
           /\ (\E a \in 1..Len(pos.dims) : pos.dims[a] = 0) => pos.emitted = <<>>
    /\ DataPrinted =>
           /\ term # "crashed" => acc.read = Iota(sizes.M * sizes.R * sizes.N)
           /\ term = "crashed" =>
                  (Len(acc.read) <= sizes.M * sizes.R * sizes.N
                   /\ acc.read = Iota(Len(acc.read)))
           /\ acc.ok => Len(acc.read) = acc.len
           /\ (sizes.M = 0 \/ sizes.R = 0 \/ sizes.N = 0) => acc.read = <<>>

C11_Witness ==
    /\ PositionPrinted
    /\ pos.var = "ReceiverPosition"
    /\ Len(pos.dims) = 3
    /\ pos.dims[1] # pos.dims[2]
    /\ pos.emitted = Iota(Product(pos.dims))
    /\ Len(pos.emitted) >= 4

\* C12: every index at which main reads the vector filled by
\* GetFrequencyValues, GetDataReal or GetDataImag is below the length of
\* that vector, whatever the accessor returned.
C12_ReadsWithinBuffer ==
    /\ ~oob
    /\ (acc.name \in DataAccessors /\ LastCall.fn = acc.name
           /\ LastCall.res \notin ExcKinds) =>
           \A x \in 1..Len(acc.read) : acc.read[x] < acc.len

====
